---- MODULE Spec2Model ----
(***************************************************************************)
(* Sliding-window-log rate limiter of go-rate-limiter.                     *)
(*                                                                         *)
(* RateLimiter.IsRequestAllowed reads the wall clock twice (milliseconds   *)
(* for the score, nanoseconds for the request id), runs the Lua script     *)
(* slidingWindowScript atomically at the Redis store and maps the reply,   *)
(* or an error, to a boolean.  Any number of calls may be in flight at     *)
(* once; the store serialises script bodies.                               *)
(*                                                                         *)
(* A call takes two steps.  Capture reads the clock.  The second step is   *)
(* the round trip: the script body runs at the store (the point where the  *)
(* call takes effect) and the call returns; between the two nothing the    *)
(* call does touches shared state.  The round trip may also end in an      *)
(* error, before the script ran or after it ran.                           *)
(*                                                                         *)
(* Time is one wall clock counted in ticks (the nanosecond clock, scaled); *)
(* TicksPerMs ticks make a millisecond.  A round trip to the store ends at *)
(* a later tick than the one the call captured.                            *)
(***************************************************************************)
EXTENDS Integers, FiniteSets, Sequences, TLC

\* ---------------------------------------------------------------- bounds
MaxCalls   == 2      \* calls in one behaviour of Spec (two keys, errors)
MaxErrors  == 1      \* script invocations that end in an error, in Spec
MaxBurst   == 3      \* calls in one behaviour of BurstSpec
MaxSeq     == 4      \* calls in one behaviour of SeqSpec
MaxLimit   == 2      \* limits 0..MaxLimit are explored
MaxClock   == 6      \* last tick of the wall clock
TicksPerMs == 2      \* nanosecond ticks per millisecond (scaled)
WindowMs   == 2      \* rl.window.Milliseconds()
GraceTicks == 2      \* grace period of server.Shutdown (scaled)

Keys  == {"A", "B"}
Calls == 1 .. MaxCalls
BurstCalls == 1 .. MaxBurst
SeqCalls == 1 .. MaxSeq
CallIds == Calls \cup BurstCalls \cup SeqCalls

NoInt == -1          \* "no value": no reply yet / key has no TTL
NoKey == "none"      \* key of a call that is not running

VARIABLES
    clock,      \* wall clock, in ticks
    limit,      \* rl.limit, fixed at construction
    zsets,      \* store: key -> sorted set, a set of [score, member]
    expireAt,   \* store: key -> absolute expiry in ms, NoInt when none
    pc,         \* call -> "idle" | "ready" | "done"
    key,        \* call -> key passed to IsRequestAllowed (while running)
    now,        \* call -> time.Now().UnixMilli() captured (while running)
    requestID,  \* call -> <<now, time.Now().UnixNano()>> (while running)
    err,        \* call -> "none" or the error the script invocation ended in
    ret,        \* call -> value returned by IsRequestAllowed, once "done"
    log,        \* history: call -> [key, now, id, reply] of its script
                \* execution (kept in LogSpec and SeqSpec only)
    mw,         \* middleware: counters, responses, wrapped-handler calls
    srv         \* main: phase of the process and state of the store client

vars == <<clock, limit, zsets, expireAt, pc, key, now, requestID, err, ret, log,
          mw, srv>>

\* What the limiter core never touches.
appVars == <<mw, srv>>

callVars == <<pc, key, now, requestID, err, ret, log>>

\* ---------------------------------------------------------------- clock
\* time.Time.UnixMilli of a clock reading in ticks
UnixMilli(t) == t \div TicksPerMs

\* time.Time.UnixNano of a clock reading in ticks
UnixNano(t) == t

\* fmt.Sprintf("%d-%d", now, nano): injective on the pair
Sprintf(n, nano) == <<n, nano>>

\* ---------------------------------------------------------------- store
\* The database seen by a command at store time t (ms): a key whose TTL
\* has passed does not exist (Redis deletes it on access).
Lookup(db, k, t) ==
    IF db.ttl[k] # NoInt /\ t > db.ttl[k]
    THEN [zs |-> [db.zs EXCEPT ![k] = {}], ttl |-> [db.ttl EXCEPT ![k] = NoInt]]
    ELSE db

\* Variant: the upper bound of the range is exclusive.
ZREMRANGEBYSCORE_exclusive(db, k, min, max) ==
    LET kept == {e \in db.zs[k] : ~(min <= e.score /\ e.score < max)}
    IN  [zs  |-> [db.zs EXCEPT ![k] = kept],
         ttl |-> [db.ttl EXCEPT ![k] = IF kept = {} THEN NoInt ELSE @]]

\* ZREMRANGEBYSCORE key min max: remove members with min <= score <= max;
\* a sorted set left empty is deleted together with its TTL.
ZREMRANGEBYSCORE(db, k, min, max) ==
    LET kept == {e \in db.zs[k] : ~(min <= e.score /\ e.score <= max)}
    IN  [zs  |-> [db.zs EXCEPT ![k] = kept],
         ttl |-> [db.ttl EXCEPT ![k] = IF kept = {} THEN NoInt ELSE @]]

\* ZCARD key
ZCARD(db, k) == Cardinality(db.zs[k])

\* ZADD key score member: a member already present only gets the new score
ZADD(db, k, score, member) ==
    [zs  |-> [db.zs EXCEPT ![k] = {e \in @ : e.member # member}
                                    \cup {[score |-> score, member |-> member]}],
     ttl |-> db.ttl]

\* Variant: the TTL is set only on a key that has none (no refresh).
PEXPIRE_onlyNew(db, k, ms, t) ==
    IF db.zs[k] = {} \/ db.ttl[k] # NoInt THEN db
    ELSE [zs |-> db.zs, ttl |-> [db.ttl EXCEPT ![k] = t + ms]]

\* PEXPIRE key ms at store time t
PEXPIRE(db, k, ms, t) ==
    IF db.zs[k] = {} THEN db
    ELSE [zs |-> db.zs, ttl |-> [db.ttl EXCEPT ![k] = t + ms]]

\* Variant: the count is taken before the eviction step.
slidingWindowScript_countFirst(db, t, k, n, window, lim, member) ==
    LET clearBefore  == n - window
        currentCount == ZCARD(Lookup(db, k, t), k)
        db1          == ZREMRANGEBYSCORE(Lookup(db, k, t), k, 0, clearBefore)
    IN  IF currentCount < lim
        THEN [db |-> PEXPIRE(ZADD(db1, k, n, member), k, window, t), reply |-> 0]
        ELSE [db |-> db1, reply |-> 1]

\* Variant: the count check admits at currentCount = limit.
slidingWindowScript_offByOne(db, t, k, n, window, lim, member) ==
    LET clearBefore  == n - window
        db1          == ZREMRANGEBYSCORE(Lookup(db, k, t), k, 0, clearBefore)
        currentCount == ZCARD(db1, k)
    IN  IF currentCount <= lim
        THEN [db |-> PEXPIRE(ZADD(db1, k, n, member), k, window, t), reply |-> 0]
        ELSE [db |-> db1, reply |-> 1]

\* Variant: the cleanup and the count run on one fixed key instead of KEYS[1].
slidingWindowScript_fixedKey(db, t, k, n, window, lim, member) ==
    LET clearBefore  == n - window
        db1          == ZREMRANGEBYSCORE(Lookup(db, "A", t), "A", 0, clearBefore)
        currentCount == ZCARD(db1, "A")
    IN  IF currentCount < lim
        THEN [db |-> PEXPIRE(ZADD(db1, k, n, member), k, window, t), reply |-> 0]
        ELSE [db |-> db1, reply |-> 1]

\* Variant: ZADD is given the window as the score (arguments mixed up).
slidingWindowScript_wrongScore(db, t, k, n, window, lim, member) ==
    LET clearBefore  == n - window
        db1          == ZREMRANGEBYSCORE(Lookup(db, k, t), k, 0, clearBefore)
        currentCount == ZCARD(db1, k)
    IN  IF currentCount < lim
        THEN [db |-> PEXPIRE(ZADD(db1, k, window, member), k, window, t), reply |-> 0]
        ELSE [db |-> db1, reply |-> 1]

\* The Lua script, one atomic unit at the store, executed at store time t.
slidingWindowScript(db, t, k, n, window, lim, member) ==
    LET clearBefore  == n - window
        db1          == ZREMRANGEBYSCORE(Lookup(db, k, t), k, 0, clearBefore)
        currentCount == ZCARD(db1, k)
    IN  IF currentCount < lim
        THEN [db |-> PEXPIRE(ZADD(db1, k, n, member), k, window, t), reply |-> 0]
        ELSE [db |-> db1, reply |-> 1]

\* Variant: fail closed, an error denies the request.
Decision_failClosed(res, e) == IF e # "none" THEN FALSE ELSE res = 0

\* Variant: the error is ignored and the (absent or stale) reply decides.
Decision_ignoreErr(res, e) == res = 0

\* Tail of IsRequestAllowed: fail open on error, else result == 0
Decision(res, e) == IF e # "none" THEN TRUE ELSE res = 0

\* ---------------------------------------------------------------- actions
Init ==
    /\ clock = 0
    /\ limit \in 0 .. MaxLimit
    /\ zsets = [k \in Keys |-> {}]
    /\ expireAt = [k \in Keys |-> NoInt]
    /\ pc = [c \in CallIds |-> "idle"]
    /\ key = [c \in CallIds |-> NoKey]
    /\ now = [c \in CallIds |-> NoInt]
    /\ requestID = [c \in CallIds |-> <<NoInt, NoInt>>]
    /\ err = [c \in CallIds |-> "none"]
    /\ ret = [c \in CallIds |-> FALSE]
    /\ log = [c \in CallIds |-> [key |-> NoKey, now |-> NoInt,
                                  id |-> <<NoInt, NoInt>>, reply |-> NoInt]]
    /\ mw = [allowed |-> 0, blocked |-> 0,
             status |-> [c \in CallIds |-> 0], next |-> [c \in CallIds |-> 0]]
    /\ srv = [phase |-> "serving", rdb |-> "open", deadline |-> NoInt]

InFlight(c) == pc[c] = "ready"

\* The wall clock advances.
Tick ==
    /\ clock < MaxClock
    /\ clock' = clock + 1
    /\ UNCHANGED <<limit, zsets, expireAt, callVars, appVars>>

\* IsRequestAllowed, entry: now := UnixMilli(); requestID from a second
\* clock reading, d ticks later.  Calls are numbered in the order they start.
Capture(c, k, d) ==
    /\ pc[c] = "idle"
    /\ \A b \in CallIds : b < c => pc[b] # "idle"
    /\ clock + d <= MaxClock
    /\ clock' = clock + d
    /\ pc' = [pc EXCEPT ![c] = "ready"]
    /\ key' = [key EXCEPT ![c] = k]
    /\ now' = [now EXCEPT ![c] = UnixMilli(clock)]
    /\ requestID' = [requestID EXCEPT ![c] = Sprintf(UnixMilli(clock), UnixNano(clock + d))]
    /\ UNCHANGED <<limit, zsets, expireAt, err, ret, log, appVars>>

\* What slidingWindowScript.Run(ctx, rdb, {key}, now, window, limit, requestID)
\* does at the store when it runs now.
ScriptOut(c) ==
    slidingWindowScript([zs |-> zsets, ttl |-> expireAt], UnixMilli(clock),
                        key[c], now[c], WindowMs, limit, requestID[c])

\* The script body of call c runs atomically at the store.
Execute(c) ==
    /\ zsets' = ScriptOut(c).db.zs
    /\ expireAt' = ScriptOut(c).db.ttl

\* Variant: after an error the call does not return but tries again.
Finish_retry(c, res, e) ==
    /\ pc' = [pc EXCEPT ![c] = IF e # "none" THEN "ready" ELSE "done"]
    /\ err' = [err EXCEPT ![c] = e]
    /\ ret' = [ret EXCEPT ![c] = Decision(res, e)]
    /\ IF e # "none"
       THEN UNCHANGED <<key, now, requestID>>
       ELSE /\ key' = [key EXCEPT ![c] = NoKey]
            /\ now' = [now EXCEPT ![c] = NoInt]
            /\ requestID' = [requestID EXCEPT ![c] = <<NoInt, NoInt>>]
    /\ UNCHANGED <<clock, limit>>

\* IsRequestAllowed returns: err != nil gives true, else result == 0; the
\* locals of the call end with it.
Finish(c, res, e) ==
    /\ pc' = [pc EXCEPT ![c] = "done"]
    /\ err' = [err EXCEPT ![c] = e]
    /\ ret' = [ret EXCEPT ![c] = Decision(res, e)]
    /\ key' = [key EXCEPT ![c] = NoKey]
    /\ now' = [now EXCEPT ![c] = NoInt]
    /\ requestID' = [requestID EXCEPT ![c] = <<NoInt, NoInt>>]
    /\ UNCHANGED <<clock, limit>>

\* The script execution of call c is kept in the log.
Logged(c) ==
    log' = [log EXCEPT ![c] = [key |-> key[c], now |-> now[c],
                               id |-> requestID[c],
                               reply |-> ScriptOut(c).reply]]

\* The round trip succeeds: the script runs, its reply comes back, err == nil.
RunScriptStep(c) ==
    /\ pc[c] = "ready"
    /\ clock > requestID[c][2]
    /\ Execute(c)
    /\ Finish(c, ScriptOut(c).reply, "none")

RunScript(c) == RunScriptStep(c) /\ UNCHANGED <<log, appVars>>

RunScriptLogged(c) == RunScriptStep(c) /\ Logged(c) /\ UNCHANGED appVars

\* The invocation ends in an error.  Either the script never ran (store
\* unreachable, script rejected, context cancelled before it ran) or it ran
\* and the reply did not come back (connection lost, context cancelled).
ErrorCauses == {"transport", "script", "canceled"}

FailOpenStep(c, cause, ran) ==
    /\ pc[c] = "ready"
    /\ clock > requestID[c][2]
    /\ Cardinality({b \in CallIds : err[b] # "none"}) < MaxErrors
    /\ cause = "script" => ~ran
    /\ IF ran THEN Execute(c) ELSE UNCHANGED <<zsets, expireAt>>
    /\ Finish(c, NoInt, cause)

FailOpen(c, cause, ran) == FailOpenStep(c, cause, ran) /\ UNCHANGED <<log, appVars>>

FailOpenLogged(c, cause, ran) ==
    /\ FailOpenStep(c, cause, ran)
    /\ IF ran THEN Logged(c) ELSE UNCHANGED log
    /\ UNCHANGED appVars

\* The store drops a key whose TTL has passed (active expiry).
ActiveExpire(k) ==
    /\ expireAt[k] # NoInt
    /\ UnixMilli(clock) > expireAt[k]
    /\ zsets' = [zsets EXCEPT ![k] = {}]
    /\ expireAt' = [expireAt EXCEPT ![k] = NoInt]
    /\ UNCHANGED <<clock, limit, callVars, appVars>>

\* ------------------------------------------------------------ middleware
\* getIP: the first address of X-Forwarded-For if the header is set, else
\* the host of RemoteAddr.  A key of Keys stands for "limit:" + that address.
getIP(forwarded, remote) == IF forwarded # <<>> THEN Head(forwarded) ELSE remote

Forwarded == {<<>>, <<"B", "A">>}

\* RateLimitMiddleware, entry: the key is derived and IsRequestAllowed starts.
MwCapture(c, forwarded, remote, d) == Capture(c, getIP(forwarded, remote), d)

\* Variant: the `return` after http.Error is missing.
Respond_noReturn(c) ==
    mw' = IF ~ret'[c]
          THEN [mw EXCEPT !.blocked = @ + 1, !.allowed = @ + 1,
                          !.status[c] = 429, !.next[c] = @ + 1]
          ELSE [mw EXCEPT !.allowed = @ + 1, !.next[c] = @ + 1, !.status[c] = 200]

\* RateLimitMiddleware after IsRequestAllowed returned: a denied request
\* counts as blocked and gets 429; an allowed one counts as allowed and goes
\* to the wrapped handler, which answers 200.
Respond(c) ==
    mw' = IF ~ret'[c]
          THEN [mw EXCEPT !.blocked = @ + 1, !.status[c] = 429]
          ELSE [mw EXCEPT !.allowed = @ + 1, !.next[c] = @ + 1, !.status[c] = 200]

MwRunScript(c) == RunScriptStep(c) /\ Respond(c) /\ UNCHANGED <<log, srv>>

MwFailOpen(c, cause, ran) ==
    FailOpenStep(c, cause, ran) /\ Respond(c) /\ UNCHANGED <<log, srv>>

\* Requests through the middleware.
NextMw ==
    \/ Tick
    \/ \E c \in Calls, f \in Forwarded, r \in Keys, d \in 0 .. 1 : MwCapture(c, f, r, d)
    \/ \E c \in Calls : MwRunScript(c)
    \/ \E c \in Calls, cause \in ErrorCauses, ran \in BOOLEAN : MwFailOpen(c, cause, ran)
    \/ \E k \in Keys : ActiveExpire(k)

MwSpec == Init /\ [][NextMw]_vars

\* ---------------------------------------------------------------- main
\* The process is alive: its goroutines run.
Alive == srv.phase \in {"serving", "draining"}

\* The listener takes a new request only until server.Shutdown closes it.
SrvCapture(c, k, d) == srv.phase = "serving" /\ Capture(c, k, d)

SrvRunScript(c) == Alive /\ RunScript(c)

SrvFailOpen(c, cause, ran) == Alive /\ FailOpen(c, cause, ran)

\* sig := <-stop; the 5 s context is made and server.Shutdown starts: the
\* listeners are closed at once, then it waits for the connections to idle.
Signal ==
    /\ srv.phase = "serving"
    /\ srv' = [srv EXCEPT !.phase = "draining", !.deadline = clock + GraceTicks]
    /\ UNCHANGED <<clock, limit, zsets, expireAt, callVars, mw>>

\* server.Shutdown finds no request in flight and returns nil; main closes
\* the store client and returns.
DrainDone ==
    /\ srv.phase = "draining"
    /\ \A c \in Calls : ~InFlight(c)
    /\ srv' = [srv EXCEPT !.phase = "stopped", !.rdb = "closed"]
    /\ UNCHANGED <<clock, limit, zsets, expireAt, callVars, mw>>

\* The context expires with a request still in flight: server.Shutdown
\* returns its error and log.Fatalf ends the process there, before
\* rdb.Close() and without running the deferred calls.
DrainTimeout ==
    /\ srv.phase = "draining"
    /\ clock >= srv.deadline
    /\ \E c \in Calls : InFlight(c)
    /\ srv' = [srv EXCEPT !.phase = "exited"]
    /\ UNCHANGED <<clock, limit, zsets, expireAt, callVars, mw>>

\* The server from start to the end of the process.
NextShutdown ==
    \/ Tick
    \/ \E c \in Calls, k \in Keys, d \in 0 .. 1 : SrvCapture(c, k, d)
    \/ \E c \in Calls : SrvRunScript(c)
    \/ \E c \in Calls, cause \in ErrorCauses, ran \in BOOLEAN : SrvFailOpen(c, cause, ran)
    \/ \E k \in Keys : ActiveExpire(k)
    \/ Signal
    \/ DrainDone
    \/ DrainTimeout

ShutdownSpec == Init /\ [][NextShutdown]_vars

\* Concurrent calls on two keys, with store errors.
Next ==
    \/ Tick
    \/ \E c \in Calls, k \in Keys, d \in 0 .. 1 : Capture(c, k, d)
    \/ \E c \in Calls : RunScript(c)
    \/ \E c \in Calls, cause \in ErrorCauses, ran \in BOOLEAN : FailOpen(c, cause, ran)
    \/ \E k \in Keys : ActiveExpire(k)

Spec == Init /\ [][Next]_vars

\* Spec with the log of script executions kept.
NextLog ==
    \/ Tick
    \/ \E c \in Calls, k \in Keys, d \in 0 .. 1 : Capture(c, k, d)
    \/ \E c \in Calls : RunScriptLogged(c)
    \/ \E c \in Calls, cause \in ErrorCauses, ran \in BOOLEAN : FailOpenLogged(c, cause, ran)
    \/ \E k \in Keys : ActiveExpire(k)

LogSpec == Init /\ [][NextLog]_vars

\* Sequential use of one limiter on one key with the store reachable: a call
\* starts only after every earlier call has returned.
CaptureSeq(c, d) ==
    /\ \A b \in CallIds : ~InFlight(b)
    /\ Capture(c, "A", d)

NextSeq ==
    \/ Tick
    \/ \E c \in SeqCalls, d \in 0 .. 1 : CaptureSeq(c, d)
    \/ \E c \in SeqCalls : RunScriptLogged(c)
    \/ \E k \in Keys : ActiveExpire(k)

SeqSpec == Init /\ [][NextSeq]_vars

\* A burst of concurrent calls on one fresh key with the store reachable,
\* the whole burst inside one window: the clock stays below WindowMs.
TickBurst ==
    /\ UnixMilli(clock + 1) < WindowMs
    /\ Tick

CaptureBurst(c, d) ==
    /\ UnixMilli(clock + d) < WindowMs
    /\ Capture(c, "A", d)

NextBurst ==
    \/ TickBurst
    \/ \E c \in BurstCalls, d \in 0 .. 1 : CaptureBurst(c, d)
    \/ \E c \in BurstCalls : RunScript(c)

BurstSpec == Init /\ [][NextBurst]_vars

\* ---------------------------------------------------------------- claims
Done(c) == pc[c] = "done"

\* Call c returns in this step.
Returns(c) == pc[c] = "ready" /\ pc'[c] = "done"

\* The entry the script records for running call c.
Entry(c) == [score |-> now[c], member |-> requestID[c]]

\* Entries of key k that a script execution at the current instant counts.
LiveEntries(k) == {e \in zsets[k] : e.score >= UnixMilli(clock) - WindowMs}

\* C1 (BurstSpec): when more calls than the limit are issued concurrently
\* on one fresh key inside one window with the store reachable, exactly
\* `limit` of them return true and the others return false.
C1_BurstExact ==
    ((\A c \in BurstCalls : Done(c)) /\ MaxBurst > limit)
        => /\ Cardinality({c \in BurstCalls : ret[c]}) = limit
           /\ Cardinality({c \in BurstCalls : ~ret[c]}) = MaxBurst - limit

\* C2 (LogSpec): for every key, no interval [t, t + window) holds more than
\* `limit` admitted calls, each placed at the `now` recorded for its entry.
C2_WindowCount ==
    \A k \in Keys, t \in 0 .. UnixMilli(MaxClock) :
        Cardinality({c \in CallIds : /\ log[c].key = k
                                     /\ log[c].reply = 0
                                     /\ t <= log[c].now
                                     /\ log[c].now < t + WindowMs}) <= limit

\* C3 (Spec): in every state of the store, every key has at most `limit`
\* entries with timestamp >= now - window.
C3_LiveEntries ==
    \A k \in Keys : Cardinality(LiveEntries(k)) <= limit

C3_Witness ==
    /\ limit > 0
    /\ \E k \in Keys : Cardinality(LiveEntries(k)) = limit
    /\ \E c \in Calls : Done(c) /\ ~ret[c]

\* C4 (SeqSpec): of sequential calls on a fresh key that all complete inside
\* one window of the first, the first `limit` return true and the next
\* returns false.
C4_QuotaBoundary ==
    \A c \in SeqCalls :
        (Done(c) /\ UnixMilli(clock) - log[1].now < WindowMs) => (ret[c] <=> c <= limit)

C4_Witness ==
    /\ limit > 0
    /\ limit + 1 \in SeqCalls
    /\ Done(limit + 1)
    /\ UnixMilli(clock) - log[1].now < WindowMs
    /\ \A c \in 1 .. limit : ret[c]
    /\ ~ret[limit + 1]

\* Admitted calls before call j whose entry is younger than the window at
\* the `now` of call j.
YoungerBefore(j) ==
    {i \in SeqCalls : i < j /\ Done(i) /\ ret[i] /\ log[i].now > log[j].now - WindowMs}

\* C5 (SeqSpec): a call returns true as soon as fewer than `limit` earlier
\* admissions are younger than the window, in particular once the window
\* has elapsed since the first of `limit` admissions although the later
\* ones are still inside their window.
C5_WindowSliding ==
    \A j \in SeqCalls :
        (limit >= 1 /\ Done(j) /\ Cardinality(YoungerBefore(j)) < limit) => ret[j]

C5_Witness ==
    \E j \in SeqCalls :
        /\ limit >= 2
        /\ Done(j) /\ ret[j]
        /\ Cardinality({i \in SeqCalls : i < j /\ ret[i]}) = limit
        /\ \E i \in SeqCalls : i < j /\ ret[i] /\ log[i].now + WindowMs <= log[j].now
        /\ \E i \in SeqCalls : i < j /\ ret[i] /\ log[i].now + WindowMs > log[j].now
        /\ \E i \in SeqCalls : i < j /\ Done(i) /\ ~ret[i]

\* C6 as stated (Spec): with limit = 0 every call returns false.
C6_Original ==
    limit = 0 => \A c \in Calls : Done(c) => ~ret[c]

\* C6 (Spec), amended: with limit = 0 the script never admits (no history
\* ever holds an entry), and every call whose script invocation ends
\* without error returns false.
C6_ZeroLimit ==
    limit = 0 =>
        /\ \A k \in Keys : zsets[k] = {}
        /\ \A c \in Calls : (Done(c) /\ err[c] = "none") => ~ret[c]

C6_Witness ==
    /\ limit = 0
    /\ \E c \in Calls : Done(c) /\ err[c] = "none" /\ ~ret[c]

\* C7 (Spec): a call whose script invocation ended in an error has returned
\* true, whatever the history of the key and whatever the limit; the error
\* ends the call.
C7_FailOpen ==
    \A c \in Calls : err[c] # "none" => (Done(c) /\ ret[c] = TRUE)

C7_Witness ==
    \E c, b \in Calls :
        /\ err[c] # "none" /\ Done(c) /\ ret[c]
        /\ b < c /\ Done(b) /\ ~ret[b] /\ limit > 0

\* The database with the history and expiry of every key but k removed.
OnlyKey(k) ==
    [zs  |-> [h \in Keys |-> IF h = k THEN zsets[h] ELSE {}],
     ttl |-> [h \in Keys |-> IF h = k THEN expireAt[h] ELSE NoInt]]

\* C8 (Spec): a script execution for one key leaves the history and the
\* expiry of every other key unchanged, and the decision it gives is the one
\* it gives when the other keys hold nothing.
C8_KeyIsolation ==
    [][\A c \in Calls : Returns(c) =>
          /\ \A k \in Keys \ {key[c]} :
                zsets'[k] = zsets[k] /\ expireAt'[k] = expireAt[k]
          /\ err'[c] = "none" =>
                (ret'[c] <=> slidingWindowScript(OnlyKey(key[c]), UnixMilli(clock),
                                                 key[c], now[c], WindowMs, limit,
                                                 requestID[c]).reply = 0)]_vars

C8_Witness ==
    /\ limit > 0
    /\ Cardinality(zsets["A"]) = limit
    /\ Cardinality(zsets["B"]) = limit
    /\ \E a, b \in Calls : a # b /\ Done(a) /\ Done(b) /\ ret[a] /\ ret[b]

C10_CancelAllowed ==
    [][\A c \in Calls :
         (InFlight(c) /\ err'[c] = "canceled") =>
            (pc'[c] = "done" /\ ret'[c] = TRUE)]_vars

C10_Witness ==
    \E c, b \in Calls :
        /\ err[c] = "canceled" /\ Done(c) /\ ret[c]
        /\ b < c /\ Done(b) /\ ~ret[b] /\ limit > 0

\* C11 -- Denial does not mutate: a script execution that replies 1 leaves
\* the history and the expiry of every key as they were, although the
\* eviction step ran before the count.
C11_DenialNoMutation ==
    [][\A c \in Calls :
          (Returns(c) /\ ScriptOut(c).reply = 1)
              => (zsets' = zsets /\ expireAt' = expireAt)]_vars

\* A call was denied on a key that still holds its full history and a TTL.
C11_Witness ==
    /\ limit > 0
    /\ \E c \in Calls : Done(c) /\ err[c] = "none" /\ ~ret[c]
    /\ \E k \in Keys : Cardinality(zsets[k]) = limit /\ expireAt[k] # NoInt

\* C12 -- Unique entry ids: the requestID of an admitted call differs from
\* the id of every entry of the same key, also for concurrent callers that
\* read the same millisecond and nanosecond clock values; two admissions
\* are never merged into one history entry.
C12_UniqueIds ==
    [][\A c \in Calls :
          (Returns(c) /\ ScriptOut(c).reply = 0 /\ zsets' = ScriptOut(c).db.zs)
              => /\ \A e \in zsets[key[c]] : e.member # requestID[c]
                 /\ \A b \in Calls \ {c} :
                        (InFlight(b) /\ key[b] = key[c])
                            => requestID[b] # requestID[c]]_vars

\* The entries of the key of call c that exist at the store when its script
\* runs, and those of them younger than now - window.
Visible(c) == Lookup([zs |-> zsets, ttl |-> expireAt], key[c], UnixMilli(clock)).zs[key[c]]
Kept(c) == {e \in Visible(c) : e.score > now[c] - WindowMs}

\* C13 -- Eviction boundary: a script execution removes exactly the entries
\* with timestamp <= now - window (one exactly at now - window goes), keeps
\* those with timestamp > now - window, and counts the kept entries.
C13_EvictionBoundary ==
    [][\A c \in Calls :
          (Returns(c) /\ err'[c] = "none")
              => /\ ret'[c] <=> Cardinality(Kept(c)) < limit
                 /\ zsets'[key[c]] =
                        IF ret'[c] THEN Kept(c) \cup {Entry(c)} ELSE Kept(c)]_vars

\* With limit 1, a call at now = window was admitted on key "A" after an
\* admission at now = 0: the entry exactly at now - window was removed.
C13_Witness ==
    /\ limit = 1
    /\ UnixMilli(clock) = WindowMs
    /\ zsets["B"] = {}
    /\ \E e \in zsets["A"] : zsets["A"] = {e} /\ e.score = WindowMs
    /\ \E a, b \in Calls :
           a # b /\ Done(a) /\ Done(b) /\ ret[a] /\ ret[b]
                 /\ err[a] = "none" /\ err[b] = "none"

\* The step in which the script of call c runs at the store and admits.
Admits(c) ==
    /\ Returns(c)
    /\ ScriptOut(c).reply = 0
    /\ zsets' = ScriptOut(c).db.zs
    /\ expireAt' = ScriptOut(c).db.ttl

\* C14 -- Expiry refresh: an admitting script execution sets the expiry of
\* its key to exactly window ms after the execution and a denying one leaves
\* it unchanged; so the history of a key goes at the store only after window
\* has passed with no admission, it is then gone as a whole for the next
\* execution, and it stays while admissions arrive less than window apart.
C14_ExpiryRefresh ==
    [][/\ \A k \in Keys :
            \/ zsets'[k] = zsets[k] /\ expireAt'[k] = expireAt[k]
            \/ /\ expireAt[k] # NoInt /\ UnixMilli(clock) > expireAt[k]
               /\ zsets'[k] = {} /\ expireAt'[k] = NoInt
            \/ \E c \in Calls : /\ Returns(c) /\ key[c] = k
                                 /\ expireAt'[k] = UnixMilli(clock) + WindowMs
                                 /\ Admits(c)
       /\ \A c \in Calls :
            Returns(c) =>
                /\ (err'[c] = "none" /\ ~ret'[c])
                       => expireAt'[key[c]] = expireAt[key[c]]
                /\ (expireAt[key[c]] # NoInt /\ UnixMilli(clock) > expireAt[key[c]]
                                             /\ Admits(c))
                       => zsets'[key[c]] = {Entry(c)}]_vars

\* A second admission at a later millisecond moved the expiry of a key on.
C14_Witness ==
    \E k \in Keys : \E e1, e2 \in zsets[k] :
        /\ e1.score < e2.score
        /\ expireAt[k] >= e2.score + WindowMs
        /\ expireAt[k] > e1.score + WindowMs

\* C15 -- No resurrection: an entry that has left the history of a key (by
\* eviction or because the key expired) is never present in it again: an
\* entry that a script execution adds was never recorded for that key before.
C15_NoResurrection ==
    [][\A c \in Calls :
          (Admits(c) /\ Entry(c) \notin Visible(c))
              => ~ \E a \in Calls \ {c} :
                     /\ log[a].reply = 0
                     /\ log[a].key = key[c]
                     /\ [score |-> log[a].now, member |-> log[a].id] = Entry(c)]_vars

\* C16 -- History size bound: in every reachable state every key stores at
\* most `limit` entries, live and stale ones together.
C16_HistorySize == \A k \in Keys : Cardinality(zsets[k]) <= limit

\* A key stores `limit` entries of which one is stale (outside the window
\* of the present instant) and still stored.
C16_Witness ==
    /\ limit > 0
    /\ \E k \in Keys :
           /\ Cardinality(zsets[k]) = limit
           /\ \E e \in zsets[k] : e.score <= UnixMilli(clock) - WindowMs

\* C17 -- Store expiry loses no live entry: every entry dropped with an
\* expired key has a timestamp <= expiry instant - window, and so a call is
\* admitted only if the eviction step alone, on the history as stored, would
\* have left fewer than `limit` entries.
C17_ExpiryLosesNothing ==
    [][/\ \A k \in Keys :
            (expireAt[k] # NoInt /\ UnixMilli(clock) > expireAt[k])
                => \A e \in zsets[k] \ zsets'[k] :
                       e.score <= UnixMilli(clock) - WindowMs
       /\ \A c \in Calls :
            (Returns(c) /\ err'[c] = "none" /\ ret'[c])
                => Cardinality({e \in zsets[key[c]] :
                                   e.score > now[c] - WindowMs}) < limit]_vars

\* C18 -- Single evaluation per call: the store changes only in the step in
\* which a call returns (or when a key's TTL has passed), that step inserts
\* at most one entry, a call that has returned never acts again, and an
\* error ends the call in the same step (no retry, no backoff).
C18_SingleEvaluation ==
    [][/\ (zsets' # zsets \/ expireAt' # expireAt)
            => \/ \E c \in Calls : Returns(c)
               \/ \E k \in Keys : /\ expireAt[k] # NoInt
                                   /\ UnixMilli(clock) > expireAt[k]
                                   /\ zsets' = [zsets EXCEPT ![k] = {}]
                                   /\ expireAt' = [expireAt EXCEPT ![k] = NoInt]
       /\ Cardinality(UNION {zsets'[k] \ zsets[k] : k \in Keys}) <= 1
       /\ \A c \in Calls :
            /\ Done(c) => (pc'[c] = "done" /\ ret'[c] = ret[c] /\ err'[c] = err[c])
            /\ (InFlight(c) /\ err'[c] # "none") => pc'[c] = "done"]_vars

\* The only call made so far ended in an error after its script had run:
\* it returned at once and the store holds exactly one entry.
C18_Witness ==
    \E c \in Calls :
        /\ Done(c) /\ err[c] = "transport" /\ ret[c]
        /\ \A b \in Calls \ {c} : pc[b] = "idle"
        /\ Cardinality(UNION {zsets[k] : k \in Keys}) = 1

\* C19 -- Middleware outcome: the wrapped handler is invoked if and only if
\* IsRequestAllowed returned true; a denied request gets 429 and never
\* reaches the handler; exactly one of the counters allowed / blocked goes
\* up per request, so allowed + blocked is the number of requests processed.
C19_MiddlewareOutcome ==
    /\ \A c \in Calls :
          /\ Done(c) => ((mw.next[c] = 1) <=> ret[c])
          /\ Done(c) => mw.next[c] <= 1
          /\ Done(c) => ((mw.status[c] = 429) <=> ~ret[c])
          /\ (Done(c) /\ ~ret[c]) => mw.next[c] = 0
          /\ ~Done(c) => (mw.next[c] = 0 /\ mw.status[c] = 0)
    /\ mw.allowed = Cardinality({c \in Calls : Done(c) /\ ret[c]})
    /\ mw.blocked = Cardinality({c \in Calls : Done(c) /\ ~ret[c]})
    /\ mw.allowed + mw.blocked = Cardinality({c \in Calls : Done(c)})

\* One request went to the wrapped handler and one got 429.
C19_Witness ==
    /\ mw.allowed = 1 /\ mw.blocked = 1
    /\ \E a, b \in Calls :
           /\ Done(a) /\ ret[a] /\ mw.next[a] = 1 /\ mw.status[a] = 200
           /\ Done(b) /\ ~ret[b] /\ mw.next[b] = 0 /\ mw.status[b] = 429

\* C20 -- Shutdown ordering: after the signal no new request is taken, the
\* requests in flight are drained, and only then is the store client closed;
\* on every path that follows the signal the store client is closed in the
\* end, and no request is in flight on a closed store client.
C20_ShutdownOrdering ==
    /\ [](srv.phase \in {"stopped", "exited"} => srv.rdb = "closed")
    /\ [](srv.rdb = "closed" => \A c \in Calls : ~InFlight(c))
    /\ [][/\ srv.phase # "serving"
              => \A c \in Calls : pc[c] = "idle" => pc'[c] = "idle"
          /\ (srv.rdb = "open" /\ srv'.rdb = "closed")
              => (srv.phase = "draining" /\ \A c \in Calls : ~InFlight(c))
          /\ (srv.phase = "draining" /\ srv'.phase = "exited")
              => clock >= srv.deadline]_vars

TypeOK ==
    /\ clock \in 0 .. MaxClock
    /\ limit \in 0 .. MaxLimit
    /\ \A c \in CallIds : pc[c] \in {"idle", "ready", "done"}
    /\ \A c \in CallIds : ret[c] \in BOOLEAN
    /\ mw.allowed \in 0 .. MaxCalls /\ mw.blocked \in 0 .. MaxCalls
    /\ \A c \in CallIds : mw.status[c] \in {0, 200, 429} /\ mw.next[c] \in 0 .. 1
    /\ srv.phase \in {"serving", "draining", "stopped", "exited"}
    /\ srv.rdb \in {"open", "closed"}
    /\ srv.deadline \in {NoInt} \cup (0 .. MaxClock + GraceTicks)
====
